---- MODULE Spec2Model ----
(***************************************************************************)
(* A model of xMapxIntake.py: the Service-Event Classifier                 *)
(* (process_excel_file, fetch_defendants, determine_llcode), the Judgment  *)
(* Tagger (process_xjmtr) and the File Router (move_files).                *)
(*                                                                         *)
(* Python strings that the code takes apart (file names, defendant names   *)
(* that SQL trims, notes whose line breaks are replaced) are sequences of  *)
(* tokens; a token is a run of characters none of the code's string        *)
(* operations ever cuts.  Python's None is the token sequence NoneStr, or  *)
(* NoneInt where the value is otherwise an integer.                        *)
(*                                                                         *)
(* The spreadsheet has every cell of its rows filled, the case records do  *)
(* not change during a run, and the file system follows the POSIX rules    *)
(* for rename: moving a file onto an existing file replaces it.            *)
(***************************************************************************)
EXTENDS Integers, Sequences, FiniteSets, TLC

VARIABLES
    \* --- process_excel_file ---
    MASTER,            \* rows of dbo.MASTER in the order the cursor returns them
    df,                \* the rows of the spreadsheet read so far, in file order
    output_data_1,     \* Output Row-Set 1
    output_data_2,     \* Output Row-Set 2
    processed_pairs,   \* the set of (file_no, person_served) already accepted
    out_index,         \* the dataframe index of the row behind each output entry
    pc_excel,          \* "idle", "start", "loop", "done"
    \* --- determine_llcode called on its own ---
    ll_args,           \* <<service_type, person_served, d1, d2, d3>>
    ll_result,         \* the value returned
    pc_ll,             \* "idle", "call", "returned"
    \* --- move_files / process_xjmtr ---
    src_dir,           \* the source directory: entry name -> "file" or "dir"
    src_at_start,      \* the source directory as it was when move_files was called
    xjmtr_file,        \* the lines of the tag file; empty before it is written
    xjmtr_closed,      \* TRUE once the with-block of process_xjmtr has been left
    dest_files,        \* destination tree: path -> source name whose content it holds
    dest_dirs,         \* destination tree: the directories that exist
    pending,           \* entries of the listing of line 127 not yet visited
    filename,          \* the loop variable of line 127: the entry visited last
    pc_move            \* "idle", "call", "xjmtr", "listdir", "loop", "done", "error"

excel_vars == <<MASTER, df, output_data_1, output_data_2, processed_pairs, out_index, pc_excel>>
ll_vars == <<ll_args, ll_result, pc_ll>>
move_vars == <<src_dir, src_at_start, xjmtr_file, xjmtr_closed, dest_files, dest_dirs,
               pending, filename, pc_move>>
vars == <<excel_vars, ll_vars, move_vars>>

(***************************************************************************)
(* Bounds of the model.                                                    *)
(***************************************************************************)
MaxRows == 2        \* rows in the spreadsheet
MaxEntries == 2     \* entries in the source directory

(***************************************************************************)
(* Python values.                                                          *)
(***************************************************************************)
NoneStr == <<"<None>">>
NoneInt == -1

\* bool(x) for an integer-or-None value: None and 0 are falsy.
TruthyInt(x) == x # NoneInt /\ x # 0

\* bool(s) for a string-or-None value: None and '' are falsy.
TruthyStr(s) == s # NoneStr /\ s # <<>>

\* xs.index(x) + 1 for a list that contains x: the first position holding x.
IndexPlusOne(xs, x) == CHOOSE i \in 1..Len(xs) : xs[i] = x /\ \A j \in 1..(i - 1) : xs[j] # x

\* x in xs, for a list xs.
InList(x, xs) == \E i \in 1..Len(xs) : xs[i] = x

\* s.replace(old, new), old and new single characters.
RECURSIVE Replace(_, _, _)
Replace(s, old, new) ==
    IF s = <<>> THEN <<>>
    ELSE <<IF Head(s) = old THEN new ELSE Head(s)>> \o Replace(Tail(s), old, new)

(***************************************************************************)
(* fetch_defendants: the query and the scan of its result.                 *)
(***************************************************************************)
RECURSIVE LTrim(_)
LTrim(s) == IF s # <<>> /\ Head(s) = " " THEN LTrim(Tail(s)) ELSE s

RECURSIVE RTrim(_)
RTrim(s) == IF s # <<>> /\ s[Len(s)] = " " THEN RTrim(SubSeq(s, 1, Len(s) - 1)) ELSE s

\* LTRIM(RTRIM(col)); SQL functions return NULL on NULL.
SqlTrim(s) == IF s = NoneStr THEN NoneStr ELSE LTrim(RTrim(s))

\* The WHERE clause of the query.
QueryWhere(rec) ==
    rec.DEFENDANT_1 # NoneStr \/ rec.DEFENDANT_2 # NoneStr \/ rec.DEFENDANT_3 # NoneStr

\* cursor.fetchall(): the selected columns of the rows the WHERE clause keeps.
QueryRows(table) ==
    LET kept == SelectSeq(table, QueryWhere)
    IN  [i \in 1..Len(kept) |->
            <<kept[i].FileNo, SqlTrim(kept[i].DEFENDANT_1),
              SqlTrim(kept[i].DEFENDANT_2), SqlTrim(kept[i].DEFENDANT_3)>>]

NoMatch == <<NoneInt, NoneStr, NoneStr, NoneStr>>

\* The first fetched row one of whose three names is person_served.
fetch_defendants(person_served, table) ==
    LET rows == QueryRows(table)
        hits == {i \in 1..Len(rows) : InList(person_served, <<rows[i][2], rows[i][3], rows[i][4]>>)}
    IN  IF hits = {} THEN NoMatch
        ELSE rows[CHOOSE i \in hits : \A j \in hits : i <= j]

(***************************************************************************)
(* determine_llcode.                                                       *)
(***************************************************************************)
\* f"{prefix}{n}"
FormatCode(prefix, n) == <<prefix \o ToString(n)>>

LastIndexPlusOne(xs, x) == CHOOSE i \in 1..Len(xs) : xs[i] = x /\ \A j \in (i + 1)..Len(xs) : xs[j] # x

determine_llcode_last_slot(service_type, person_served, d1, d2, d3) ==
    LET ds == <<d1, d2, d3>>
    IN  IF service_type \in {"N", "S", "P"} /\ InList(person_served, ds)
        THEN FormatCode(CASE service_type = "N" -> "XSNG"
                          [] service_type = "S" -> "XSUBS"
                          [] service_type = "P" -> "XPS",
                        LastIndexPlusOne(ds, person_served))
        ELSE NoneStr

determine_llcode_default_code(service_type, person_served, d1, d2, d3) ==
    LET ds == <<d1, d2, d3>>
    IN  IF InList(person_served, ds)
        THEN FormatCode(CASE service_type = "N" -> "XSNG"
                          [] service_type = "S" -> "XSUBS"
                          [] OTHER -> "XPS",
                        IndexPlusOne(ds, person_served))
        ELSE NoneStr

determine_llcode(service_type, person_served, d1, d2, d3) ==
    LET ds == <<d1, d2, d3>>
    IN  IF service_type = "N"
        THEN IF InList(person_served, ds)
             THEN FormatCode("XSNG", IndexPlusOne(ds, person_served)) ELSE NoneStr
        ELSE IF service_type = "S"
        THEN IF InList(person_served, ds)
             THEN FormatCode("XSUBS", IndexPlusOne(ds, person_served)) ELSE NoneStr
        ELSE IF service_type = "P"
        THEN IF InList(person_served, ds)
             THEN FormatCode("XPS", IndexPlusOne(ds, person_served)) ELSE NoneStr
        ELSE NoneStr

(***************************************************************************)
(* process_excel_file.                                                     *)
(***************************************************************************)
A == <<"A">>
B == <<"B">>

\* Values of the FileNo column, of the spreadsheet and of dbo.MASTER.
FileNos == {1, 2}

\* Values of the Person Served column.
Persons == {A, B}

\* Values of the Service Type column; "X" is a type the code does not know.
ServiceTypes == {"N", "S", "P", "X"}

InScope == "Summons and Complaint"

TheDate == "2024-05-01"
TheAddress == "1 Main St"
TheNote == <<"left at", "\r", "\n", "front door">>

\* The rows a spreadsheet is made of.  A row of another document category is
\* dropped by the filter of line 83 whatever else it holds, so one such row,
\* which would be accepted were it in scope, stands for all of them.
SheetRows ==
    {r \in [FileNo : FileNos, PersonServed : Persons, ServiceType : ServiceTypes,
            DateOfService : {TheDate}, Address : {TheAddress}, Note : {TheNote},
            DocumentCategory : {InScope, "Affidavit"}] :
        r.DocumentCategory = InScope \/ (r.FileNo = 1 /\ r.PersonServed = A /\ r.ServiceType = "N")}

\* The three defendant columns of a case record: two names, a NULL, a name
\* stored with surrounding blanks, a name held by two slots, and a record
\* without any defendant.
DefendantColumns ==
    { <<A, B, NoneStr>>,
      <<NoneStr, <<" ", "A", " ">>, A>>,
      <<NoneStr, NoneStr, NoneStr>> }

CaseRecords ==
    {[FileNo |-> f, DEFENDANT_1 |-> d[1], DEFENDANT_2 |-> d[2], DEFENDANT_3 |-> d[3]] :
        f \in FileNos, d \in DefendantColumns}

\* dbo.MASTER: FileNo is its key.
Tables ==
    {<<>>} \cup {<<r>> : r \in CaseRecords}
           \cup {t \in CaseRecords \X CaseRecords : t[1].FileNo # t[2].FileNo}

\* notes.replace('\n', ' ').replace('\r', ' ')
CleanNotes(notes) == Replace(Replace(notes, "\n", " "), "\r", " ")

\* Line 96.
AlreadyProcessedNever(file_no, person_served, pairs) == FALSE

AlreadyProcessed(file_no, person_served, pairs) == <<file_no, person_served>> \in pairs

\* Line 106.
RecordPairForgotten(pairs, file_no, person_served) == pairs

RecordPair(pairs, file_no, person_served) == pairs \cup {<<file_no, person_served>>}

\* Lines 99-102: the code for the row, or None when the row is skipped.
RowCode(row, table) ==
    LET m == fetch_defendants(row.PersonServed, table)
    IN  IF TruthyInt(m[1])
        THEN determine_llcode(row.ServiceType, row.PersonServed, m[2], m[3], m[4])
        ELSE NoneStr

\* Line 103.
OutputRow1(row, llcode) ==
    <<row.FileNo, llcode, row.PersonServed, row.DateOfService, row.Address, row.ServiceType>>

\* Lines 104-105.
OutputRow2(row) ==
    <<109, "D", row.FileNo, "XNSRV", "MWC", CleanNotes(row.Note), "#">>

IdleExcel ==
    /\ MASTER = <<>> /\ df = <<>> /\ output_data_1 = <<>> /\ output_data_2 = <<>>
    /\ processed_pairs = {} /\ out_index = <<>> /\ pc_excel = "idle"

InitExcel ==
    /\ MASTER \in Tables
    /\ df = <<>>
    /\ output_data_1 = <<>>
    /\ output_data_2 = <<>>
    /\ processed_pairs = {}
    /\ out_index = <<>>
    /\ pc_excel = "start"

\* Lines 76-81 with the column missing: report and return [], [].
MissingColumn ==
    /\ pc_excel = "start"
    /\ pc_excel' = "done"
    /\ UNCHANGED <<MASTER, df, output_data_1, output_data_2, processed_pairs, out_index>>
    /\ UNCHANGED <<ll_vars, move_vars>>

\* Lines 76-86 with the column present.
ReadExcel ==
    /\ pc_excel = "start"
    /\ pc_excel' = "loop"
    /\ output_data_1' = <<>>
    /\ output_data_2' = <<>>
    /\ processed_pairs' = {}
    /\ UNCHANGED <<MASTER, df, out_index>>
    /\ UNCHANGED <<ll_vars, move_vars>>

\* The next row of the spreadsheet: the filter of line 83 and, for a row it
\* keeps, one iteration of the loop of lines 88-106.
ProcessRow(row) ==
    /\ pc_excel = "loop"
    /\ Len(df) < MaxRows
    /\ df' = Append(df, row)
    /\ LET llcode == RowCode(row, MASTER)
           accept == /\ row.DocumentCategory = InScope
                     /\ ~AlreadyProcessed(row.FileNo, row.PersonServed, processed_pairs)
                     /\ TruthyStr(llcode)
       IN  IF accept
           THEN /\ output_data_1' = Append(output_data_1, OutputRow1(row, llcode))
                /\ output_data_2' = Append(output_data_2, OutputRow2(row))
                /\ processed_pairs' = RecordPair(processed_pairs, row.FileNo, row.PersonServed)
                /\ out_index' = Append(out_index, Len(df) + 1)
           ELSE UNCHANGED <<output_data_1, output_data_2, processed_pairs, out_index>>
    /\ UNCHANGED <<MASTER, pc_excel>>
    /\ UNCHANGED <<ll_vars, move_vars>>

\* Line 108, once the rows are exhausted.
ReturnOutputs ==
    /\ pc_excel = "loop"
    /\ pc_excel' = "done"
    /\ UNCHANGED <<MASTER, df, output_data_1, output_data_2, processed_pairs, out_index>>
    /\ UNCHANGED <<ll_vars, move_vars>>

(***************************************************************************)
(* determine_llcode called on its own arguments.                           *)
(***************************************************************************)
C == <<"C">>

LLNames == {A, B, C}

IdleLL == ll_args = <<>> /\ ll_result = NoneStr /\ pc_ll = "idle"

InitLL ==
    /\ ll_args \in ServiceTypes \X LLNames \X (LLNames \cup {NoneStr})
                   \X (LLNames \cup {NoneStr}) \X (LLNames \cup {NoneStr})
    /\ ll_result = NoneStr
    /\ pc_ll = "call"

CallDetermineLLCode ==
    /\ pc_ll = "call"
    /\ ll_result' = determine_llcode(ll_args[1], ll_args[2], ll_args[3], ll_args[4], ll_args[5])
    /\ pc_ll' = "returned"
    /\ UNCHANGED ll_args
    /\ UNCHANGED <<excel_vars, move_vars>>

(***************************************************************************)
(* String operations on file names.  A file name is a sequence of tokens:  *)
(* "_", ".", " " and words, which hold none of those three characters.     *)
(***************************************************************************)
\* str.lower(), word by word.
LowerToken(t) ==
    CASE t = "Judgment" -> "judgment"
      [] t = "PDF" -> "pdf"
      [] t = "CSV" -> "csv"
      [] t = "Unknown" -> "unknown"
      [] OTHER -> t

Lower(s) == [i \in 1..Len(s) |-> LowerToken(s[i])]

\* s.endswith(suffix)
EndsWith(s, suffix) ==
    Len(s) >= Len(suffix) /\ SubSeq(s, Len(s) - Len(suffix) + 1, Len(s)) = suffix

\* word in s, for a word that no other word of the model holds a part of.
Contains(s, word) == \E i \in 1..Len(s) : s[i] = word

\* s.split(sep): the pieces between the separators, empty pieces included.
RECURSIVE Split(_, _)
Split(s, sep) ==
    IF \A i \in 1..Len(s) : s[i] # sep THEN <<s>>
    ELSE LET k == CHOOSE i \in 1..Len(s) : s[i] = sep /\ \A j \in 1..(i - 1) : s[j] # sep
         IN  <<SubSeq(s, 1, k - 1)>> \o Split(SubSeq(s, k + 1, Len(s)), sep)

DigitWords == {"123", "500", "2024", "20240501"}

\* s.isdigit(): at least one character, and all of them digits.
IsDigit(s) == s # <<>> /\ \A i \in 1..Len(s) : s[i] \in DigitWords

\* os.path.splitext(s) for a name without directory part: the extension starts
\* at the last dot, unless only dots precede that dot.
SplitExt(s) ==
    LET dots == {i \in 1..Len(s) : s[i] = "."}
        last == CHOOSE i \in dots : \A j \in dots : j <= i
    IN  IF dots # {} /\ (\E j \in 1..(last - 1) : s[j] # ".")
        THEN <<SubSeq(s, 1, last - 1), SubSeq(s, last, Len(s))>>
        ELSE <<s, <<>> >>

\* os.path.join(path, name): a path is the sequence of its components, and
\* joining the empty name leaves the directory itself.
PathJoin(path, name) == IF name = <<>> THEN path ELSE Append(path, name)

Parent(path) == SubSeq(path, 1, Len(path) - 1)

(***************************************************************************)
(* process_xjmtr.                                                          *)
(***************************************************************************)
Header == <<"FILENO", "\t", "LLCODE">>

\* Line 41.
IsJudgmentPdf(name) ==
    EndsWith(Lower(name), <<".", "pdf">>) /\ Contains(Lower(name), "judgment")

\* Line 42.
FileNoOf(name) == Split(name, "_")[1]

\* Lines 41-44: the lines written for one entry of the listing.
XjmtrLinesOnePerCase(name, written) ==
    IF IsJudgmentPdf(name) /\ IsDigit(FileNoOf(name))
       /\ (\A i \in 1..Len(written) : written[i] # FileNoOf(name) \o <<"\t", "XJMTR">>)
    THEN << FileNoOf(name) \o <<"\t", "XJMTR">> >>
    ELSE <<>>

XjmtrLines(name, written) ==
    IF IsJudgmentPdf(name) /\ IsDigit(FileNoOf(name))
    THEN << FileNoOf(name) \o <<"\t", "XJMTR">> >>
    ELSE <<>>

\* Lines 37-45 for a listing in the order os.listdir returned it.
RECURSIVE WriteXjmtr(_, _)
WriteXjmtr(listing, written) ==
    IF listing = <<>> THEN written
    ELSE WriteXjmtr(Tail(listing), written \o XjmtrLines(Head(listing), written))

\* The orders in which os.listdir may return the entries of a directory.
Listings(names) ==
    {l \in [1..Cardinality(names) -> names] : \A n \in names : \E i \in DOMAIN l : l[i] = n}

(***************************************************************************)
(* move_files.                                                             *)
(***************************************************************************)
data_folder == << <<"Data">> >>
documents_folder == << <<"Documents">> >>

\* os.path.exists(path) in the destination tree.
Exists(path, dirs, files) == path \in dirs \/ (\E f \in files : f[1] = path)

\* ensure_folder_exists: the directories after the call.
ensure_folder_exists(folder_path, dirs, files) ==
    IF ~Exists(folder_path, dirs, files) THEN dirs \cup {folder_path} ELSE dirs

\* Line 131.
IsSpreadsheetExtWithTxt(ext) ==
    Lower(ext) \in {<<".", "xlsx">>, <<".", "xls">>, <<".", "csv">>, <<".", "txt">>}

IsSpreadsheetExt(ext) == Lower(ext) \in {<<".", "xlsx">>, <<".", "xls">>, <<".", "csv">>}

\* Line 136.
IsPdfExt(ext) == Lower(ext) = <<".", "pdf">>

\* Lines 132-135: where a spreadsheet is moved to.
SpreadsheetDst(name, ext) ==
    LET folder_name == Split(name, "_")[1]
        subfolder == PathJoin(data_folder, folder_name)
    IN  <<subfolder, PathJoin(subfolder, name \o ext)>>

\* Lines 137-141: where a PDF is moved to.
PdfDst(name, ext) ==
    LET parts == Split(name, "_")
        folder_name == IF Len(parts) > 1 THEN parts[2] ELSE <<"Unknown">>
        subfolder == PathJoin(documents_folder, folder_name)
        new_filename == Replace(name \o ext, "_", " ")
    IN  <<subfolder, PathJoin(subfolder, new_filename)>>

\* shutil.move(file_path, dst) of a regular file: into dst when dst is a
\* directory, else onto dst, replacing a file that is there.  It raises when the
\* file would go into a directory that already holds its name, or when the
\* directory it should go into is not a directory.
MoveTarget(entry, dst, dirs) == IF dst \in dirs THEN Append(dst, entry) ELSE dst

MoveRaises(entry, dst, dirs, files) ==
    \/ dst \in dirs /\ Exists(Append(dst, entry), dirs, files)
    \/ Parent(MoveTarget(entry, dst, dirs)) \notin dirs

MoveResult(entry, dst, dirs, files) ==
    LET real_dst == MoveTarget(entry, dst, dirs)
    IN  {f \in files : f[1] # real_dst} \cup {<<real_dst, entry>>}

\* The order of the statements of move_files: the tagger, the listing, the loop.
ControlFlowTagLast(pc) ==
    CASE pc = "call" -> "listdir"
      [] pc = "listdir" -> "loop"
      [] pc = "loop" -> "xjmtr"
      [] pc = "xjmtr" -> "done"

ControlFlow(pc) ==
    CASE pc = "call" -> "xjmtr"
      [] pc = "xjmtr" -> "listdir"
      [] pc = "listdir" -> "loop"
      [] pc = "loop" -> "done"

\* The names an entry of the source directory may have:
\*   123_summons.xlsx          123_judgment_2024.pdf    123_Judgment.PDF
\*   abc_judgment.pdf          500_judgment.docx        notes.txt
\*   report.pdf                data.CSV                 .pdf
\*   500_Unknown.pdf           500 Unknown.pdf
\*   a__b.pdf                  x_a  b.pdf.pdf           20240501
EntryNames ==
    { <<"123", "_", "summons", ".", "xlsx">>,
      <<"123", "_", "judgment", "_", "2024", ".", "pdf">>,
      <<"123", "_", "Judgment", ".", "PDF">>,
      <<"abc", "_", "judgment", ".", "pdf">>,
      <<"500", "_", "judgment", ".", "docx">>,
      <<"notes", ".", "txt">>,
      <<"report", ".", "pdf">>,
      <<"data", ".", "CSV">>,
      <<".", "pdf">>,
      <<"500", "_", "Unknown", ".", "pdf">>,
      <<"500", " ", "Unknown", ".", "pdf">>,
      <<"a", "_", "_", "b", ".", "pdf">>,
      <<"x", "_", "a", " ", " ", "b", ".", "pdf", ".", "pdf">>,
      <<"20240501">> }

IdleMove ==
    /\ src_dir = <<>> /\ src_at_start = <<>> /\ xjmtr_file = <<>> /\ xjmtr_closed = FALSE
    /\ dest_files = {} /\ dest_dirs = {} /\ pending = {} /\ filename = NoneStr
    /\ pc_move = "idle"

\* move_files is called on a source directory of regular files and
\* directories, with the Data and Documents folders just created.
InitMove ==
    /\ \E names \in SUBSET EntryNames :
          /\ Cardinality(names) <= MaxEntries
          /\ src_dir \in [names -> {"file", "dir"}]
    /\ src_at_start = src_dir
    /\ xjmtr_file = <<>>
    /\ xjmtr_closed = FALSE
    /\ dest_files = {}
    /\ dest_dirs = {data_folder, documents_folder}
    /\ pending = {}
    /\ filename = NoneStr
    /\ pc_move = ControlFlow("call")

\* Line 125: process_xjmtr, from opening the tag file to closing it.
ProcessXjmtr ==
    /\ pc_move = "xjmtr"
    /\ \E listing \in Listings(DOMAIN src_dir) :
          xjmtr_file' = WriteXjmtr(listing, <<Header>>)
    /\ xjmtr_closed' = TRUE
    /\ pc_move' = ControlFlow("xjmtr")
    /\ UNCHANGED <<src_dir, src_at_start, dest_files, dest_dirs, pending, filename>>
    /\ UNCHANGED <<excel_vars, ll_vars>>

\* Line 127: os.listdir(src_dir).
ListSourceDir ==
    /\ pc_move = "listdir"
    /\ pending' = DOMAIN src_dir
    /\ pc_move' = ControlFlow("listdir")
    /\ UNCHANGED <<src_dir, src_at_start, xjmtr_file, xjmtr_closed, dest_files, dest_dirs, filename>>
    /\ UNCHANGED <<excel_vars, ll_vars>>

\* Lines 128-141: one iteration of the loop, for the entry the listing yields
\* next; the listing's order is os.listdir's, that is, any.
VisitEntry(entry) ==
    /\ pc_move = "loop"
    /\ entry \in pending
    /\ pending' = pending \ {entry}
    /\ filename' = entry
    /\ LET name == SplitExt(entry)[1]
           ext == SplitExt(entry)[2]
           routed == /\ entry \in DOMAIN src_dir
                     /\ src_dir[entry] = "file"
                     /\ (IsSpreadsheetExt(ext) \/ IsPdfExt(ext))
           to == IF IsSpreadsheetExt(ext) THEN SpreadsheetDst(name, ext) ELSE PdfDst(name, ext)
           dirs == ensure_folder_exists(to[1], dest_dirs, dest_files)
       IN  IF ~routed
           THEN UNCHANGED <<src_dir, dest_files, dest_dirs, pc_move>>
           ELSE /\ dest_dirs' = dirs
                /\ IF MoveRaises(entry, to[2], dirs, dest_files)
                   THEN /\ pc_move' = "error"
                        /\ UNCHANGED <<src_dir, dest_files>>
                   ELSE /\ dest_files' = MoveResult(entry, to[2], dirs, dest_files)
                        /\ src_dir' = [n \in DOMAIN src_dir \ {entry} |-> src_dir[n]]
                        /\ UNCHANGED pc_move
    /\ UNCHANGED <<src_at_start, xjmtr_file, xjmtr_closed>>
    /\ UNCHANGED <<excel_vars, ll_vars>>

\* The loop of line 127 has visited every entry of the listing.
LoopDone ==
    /\ pc_move = "loop"
    /\ pending = {}
    /\ pc_move' = ControlFlow("loop")
    /\ UNCHANGED <<src_dir, src_at_start, xjmtr_file, xjmtr_closed, dest_files, dest_dirs,
                   pending, filename>>
    /\ UNCHANGED <<excel_vars, ll_vars>>

(***************************************************************************)
(* Specifications.                                                         *)
(***************************************************************************)
NextExcel ==
    \/ MissingColumn
    \/ ReadExcel
    \/ \E row \in SheetRows : ProcessRow(row)
    \/ ReturnOutputs

InitExcelRun == InitExcel /\ IdleLL /\ IdleMove

SpecExcel == InitExcelRun /\ [][NextExcel]_vars

NextLL == CallDetermineLLCode

InitLLRun == IdleExcel /\ InitLL /\ IdleMove

SpecLLCode == InitLLRun /\ [][NextLL]_vars

NextMove ==
    \/ ProcessXjmtr
    \/ ListSourceDir
    \/ \E entry \in EntryNames : VisitEntry(entry)
    \/ LoopDone

InitMoveRun == IdleExcel /\ IdleLL /\ InitMove

SpecMove == InitMoveRun /\ [][NextMove]_vars

(***************************************************************************)
(* Claims about process_excel_file (checked under SpecExcel).              *)
(***************************************************************************)
KnownTypes == {"N", "S", "P"}

\* The rows read so far that the filter of line 83 keeps.
InScopeRows == {i \in 1..Len(df) : df[i].DocumentCategory = InScope}

\* Rows i and j carry the same (case id, person served) pair.
SamePair(i, j) == df[i].FileNo = df[j].FileNo /\ df[i].PersonServed = df[j].PersonServed

\* The rows that appear in the output row-sets.
AcceptedRows == {out_index[k] : k \in 1..Len(out_index)}

\* Entry k of both row-sets is the entry made for row out_index[k].
EntriesMatchRows ==
    /\ Len(output_data_1) = Len(out_index)
    /\ Len(output_data_2) = Len(out_index)
    /\ \A k \in 1..Len(out_index) :
          /\ out_index[k] \in InScopeRows
          /\ output_data_1[k][1] = df[out_index[k]].FileNo
          /\ output_data_1[k][3] = df[out_index[k]].PersonServed
          /\ output_data_1[k][6] = df[out_index[k]].ServiceType
          /\ output_data_2[k][3] = df[out_index[k]].FileNo

\* The defendant names of the case record with the given FileNo, as the query
\* returns them.
DefendantsOfCase(file_no) ==
    {d \in UNION {{SqlTrim(MASTER[i].DEFENDANT_1), SqlTrim(MASTER[i].DEFENDANT_2),
                   SqlTrim(MASTER[i].DEFENDANT_3)} :
                  i \in {j \in 1..Len(MASTER) : MASTER[j].FileNo = file_no}} : d # NoneStr}

\* C1: every entry of the two output row-sets is for a service event whose
\* person served is one of the three defendant names of the case record whose
\* FileNo is the event's own case identifier.
C1_AcceptedOnlyIfDefendantOfOwnCase ==
    /\ EntriesMatchRows
    /\ \A k \in 1..Len(output_data_1) :
          output_data_1[k][3] \in DefendantsOfCase(output_data_1[k][1])

\* C2 as stated: among the in-scope rows that share a (case id, person served)
\* pair only the first in file order appears in the output row-sets.
C2_OnlyFirstInFileOrder ==
    /\ EntriesMatchRows
    /\ \A i \in AcceptedRows : \A j \in InScopeRows : (j < i) => ~SamePair(i, j)

\* C2 as amended: among the in-scope rows that share a (case id, person served)
\* pair, only the first whose service type is N, S or P can appear in the
\* output row-sets; no row after it and no row before it appears.
C2_OnlyFirstWithKnownType ==
    /\ EntriesMatchRows
    /\ \A i \in AcceptedRows :
          /\ df[i].ServiceType \in KnownTypes
          /\ \A j \in InScopeRows :
                (j < i /\ SamePair(i, j)) => df[j].ServiceType \notin KnownTypes

\* Two in-scope rows with the same pair have been read, the first of an
\* unknown service type, and the second is the one in the output.
C2_Witness ==
    \E i \in AcceptedRows : \E j \in InScopeRows :
        j < i /\ SamePair(i, j) /\ df[j].ServiceType \notin KnownTypes

\* C3: after any prefix of the rows, no two entries of Output Row-Set 1 carry
\* the same (case id, person served) pair, and Output Row-Set 2 holds exactly
\* one entry, with the same case id, for each entry of Output Row-Set 1.
C3_PairAtMostOnce ==
    /\ Len(output_data_2) = Len(output_data_1)
    /\ \A k \in 1..Len(output_data_1) : output_data_2[k][3] = output_data_1[k][1]
    /\ \A k, l \in 1..Len(output_data_1) :
          (output_data_1[k][1] = output_data_1[l][1] /\ output_data_1[k][3] = output_data_1[l][3])
              => k = l

\* Two in-scope rows with the same pair and a known service type have been
\* read, the lookup matched, and the pair is in the output once.
C3_Witness ==
    /\ Len(output_data_1) = 1
    /\ \E i, j \in InScopeRows :
          /\ i < j /\ SamePair(i, j)
          /\ df[i].ServiceType \in KnownTypes /\ df[j].ServiceType \in KnownTypes
          /\ i \in AcceptedRows

\* C5: no entry of the output row-sets has a service type other than N, S, P,
\* and reading a row of another service type changes neither row-set and
\* leaves the loop running.
C5_UnknownTypeSkipped ==
    /\ [](EntriesMatchRows /\ \A k \in 1..Len(output_data_1) : output_data_1[k][6] \in KnownTypes)
    /\ [][(Len(df') = Len(df) + 1 /\ df'[Len(df')].ServiceType \notin KnownTypes)
            => (/\ output_data_1' = output_data_1
                /\ output_data_2' = output_data_2
                /\ pc_excel' = "loop")]_vars

\* An in-scope row of unknown service type whose person served is a defendant
\* of the looked-up case was skipped, and a later row was accepted.
C5_Witness ==
    \E i \in InScopeRows : \E j \in AcceptedRows :
        /\ i < j
        /\ i \notin AcceptedRows
        /\ df[i].ServiceType \notin KnownTypes
        /\ LET m == fetch_defendants(df[i].PersonServed, MASTER)
           IN  m # NoMatch /\ InList(df[i].PersonServed, <<m[2], m[3], m[4]>>)

(***************************************************************************)
(* Claim about determine_llcode (checked under SpecLLCode).                *)
(***************************************************************************)
CodePrefix(service_type) ==
    CASE service_type = "N" -> "XSNG"
      [] service_type = "S" -> "XSUBS"
      [] service_type = "P" -> "XPS"

SlotDigit == <<"1", "2", "3">>

\* The slots, among the three, that hold the person served.
SlotsOf(person, d1, d2, d3) == {n \in 1..3 : <<d1, d2, d3>>[n] = person}

\* C4: for service type N, S or P and a person served that is in at least one
\* of the three slots, the result is XSNG, XSUBS or XPS followed by the lowest
\* slot number holding the person served; [A, B, C], B, S gives XSUBS2.
C4_PrefixAndLowestSlot ==
    pc_ll = "returned" =>
        LET slots == SlotsOf(ll_args[2], ll_args[3], ll_args[4], ll_args[5])
            lowest == CHOOSE n \in slots : \A m \in slots : n <= m
        IN  /\ (ll_args[1] \in KnownTypes /\ slots # {})
                 => ll_result = <<CodePrefix(ll_args[1]) \o SlotDigit[lowest]>>
            /\ ll_args = <<"S", B, A, B, C>> => ll_result = <<"XSUBS2">>

\* determine_llcode has returned for a person served who is in two slots.
C4_Witness ==
    /\ pc_ll = "returned"
    /\ ll_args[1] \in KnownTypes
    /\ Cardinality(SlotsOf(ll_args[2], ll_args[3], ll_args[4], ll_args[5])) >= 2
    /\ ll_result # NoneStr

(***************************************************************************)
(* Claims about process_xjmtr and move_files (checked under SpecMove).     *)
(***************************************************************************)
\* The part of a name before its first underscore; the whole name without one.
PrefixOf(n) ==
    LET us == {i \in 1..Len(n) : n[i] = "_"}
    IN  IF us = {} THEN n ELSE SubSeq(n, 1, (CHOOSE i \in us : \A j \in us : i <= j) - 1)

\* The name ends in .pdf and contains "judgment", both in any case.
IsJudgmentPdfName(n) ==
    /\ Len(n) >= 2 /\ n[Len(n) - 1] = "." /\ n[Len(n)] \in {"pdf", "PDF"}
    /\ \E i \in 1..Len(n) : n[i] \in {"judgment", "Judgment"}

\* The names of the source directory for which a tag line is due.
TaggedNames ==
    {n \in DOMAIN src_at_start :
        /\ IsJudgmentPdfName(n)
        /\ PrefixOf(n) # <<>>
        /\ \A i \in 1..Len(PrefixOf(n)) : PrefixOf(n)[i] \in DigitWords}

TagLine(prefix) == prefix \o <<"\t", "XJMTR">>

\* The lines of the tag file, after the header, that are the given line.
LinesEqual(line) == {i \in 2..Len(xjmtr_file) : xjmtr_file[i] = line}

\* Every line after the header is the tag line of a name it is due for.
OnlyDueLines ==
    \A i \in 2..Len(xjmtr_file) : \E n \in TaggedNames : xjmtr_file[i] = TagLine(PrefixOf(n))

\* C6 as stated: once process_xjmtr has run, the tag file holds exactly one
\* line "<prefix>\tXJMTR" for every name a tag line is due for, and no line for
\* any other name.
C6_ExactlyOneLinePerPrefix ==
    xjmtr_closed =>
        /\ \A n \in TaggedNames : Cardinality(LinesEqual(TagLine(PrefixOf(n)))) = 1
        /\ OnlyDueLines

\* C6 as amended: once process_xjmtr has run, the tag file holds one line
\* "<prefix>\tXJMTR" per name a tag line is due for, so that a prefix shared by
\* k such names is on k lines, and no line for any other name.
C6_OneLinePerName ==
    xjmtr_closed =>
        /\ \A n \in TaggedNames :
              Cardinality(LinesEqual(TagLine(PrefixOf(n))))
                  = Cardinality({m \in TaggedNames : PrefixOf(m) = PrefixOf(n)})
        /\ OnlyDueLines

\* process_xjmtr has run on a directory with a judgment PDF of numeric prefix
\* whose name is in upper case, next to an entry without the marker.
C6_Witness ==
    /\ xjmtr_closed
    /\ \E n \in TaggedNames : n[Len(n)] = "PDF"
    /\ \E n \in DOMAIN src_at_start : n \notin TaggedNames
    /\ Len(xjmtr_file) = 2

\* The extension of a name is .e, in any case.
HasExtension(n, e) ==
    /\ Len(n) >= 2 /\ n[Len(n) - 1] = "." /\ LowerToken(n[Len(n)]) = e
    /\ \E j \in 1..(Len(n) - 2) : n[j] # "."

IsSpreadsheetName(n) == \E e \in {"xlsx", "xls", "csv"} : HasExtension(n, e)

IsPdfName(n) == HasExtension(n, "pdf")

\* The regular files of the source directory that move_files is to route.
RoutedFiles ==
    {n \in DOMAIN src_at_start :
        src_at_start[n] = "file" /\ (IsSpreadsheetName(n) \/ IsPdfName(n))}

\* The name without its extension.
Stem(n) == SubSeq(n, 1, Len(n) - 2)

\* The part of a PDF's name between its first and second underscore (up to
\* the extension when there is one underscore only), or Unknown.
DocumentsFolderOf(n) ==
    LET us == {i \in 1..Len(Stem(n)) : n[i] = "_"}
        first == CHOOSE i \in us : \A j \in us : i <= j
        later == {i \in us : i > first}
        second == IF later = {} THEN Len(Stem(n)) + 1
                  ELSE CHOOSE i \in later : \A j \in later : i <= j
    IN  IF us = {} THEN <<"Unknown">> ELSE SubSeq(n, first + 1, second - 1)

\* The path C7 names for a routed file.
DestinationOf(n) ==
    IF IsSpreadsheetName(n)
    THEN PathJoin(PathJoin(data_folder, PrefixOf(Stem(n))), n)
    ELSE PathJoin(PathJoin(documents_folder, DocumentsFolderOf(n)),
                  [i \in 1..Len(n) |-> IF n[i] = "_" THEN " " ELSE n[i]])

\* C7: move_files moves every routed file to the path C7 names for it: the
\* run does not stop on an error, a routed file that the loop has just visited
\* is at that path and no longer in the source directory, and at the end of the
\* run no routed file is left in the source directory.
C7_EveryRoutedFileMoved ==
    /\ pc_move # "error"
    /\ filename \in RoutedFiles =>
          /\ filename \notin DOMAIN src_dir
          /\ <<DestinationOf(filename), filename>> \in dest_files
    /\ pc_move = "done" => \A n \in RoutedFiles : n \notin DOMAIN src_dir

\* C8: an entry of the source directory whose extension is none of .xlsx,
\* .xls, .csv, .pdf stays in the source directory as it was, and nothing in
\* the destination tree comes from it.
C8_UnrecognisedStay ==
    \A n \in DOMAIN src_at_start :
        ~(IsSpreadsheetName(n) \/ IsPdfName(n)) =>
            /\ n \in DOMAIN src_dir
            /\ src_dir[n] = src_at_start[n]
            /\ \A f \in dest_files : f[2] # n

\* The run is over, it has moved a file, and a regular file of another
\* extension was in the source directory.
C8_Witness ==
    /\ pc_move = "done"
    /\ dest_files # {}
    /\ \E n \in DOMAIN src_at_start :
          src_at_start[n] = "file" /\ ~(IsSpreadsheetName(n) \/ IsPdfName(n))

\* C9: nothing is moved before the tag file is written and closed, and at the
\* end of the run the tag file holds the tag line of every judgment PDF of
\* numeric prefix that was in the source directory at the start, while those
\* that are regular files are no longer in the source directory.
C9_TaggedBeforeMoved ==
    /\ (pc_move \in {"loop", "done", "error"} \/ src_dir # src_at_start \/ dest_files # {})
           => (xjmtr_closed /\ Len(xjmtr_file) >= 1 /\ xjmtr_file[1] = Header)
    /\ pc_move \in {"done", "error"} =>
           \A n \in TaggedNames : LinesEqual(TagLine(PrefixOf(n))) # {}
    /\ pc_move = "done" =>
           \A n \in TaggedNames : src_at_start[n] = "file" => n \notin DOMAIN src_dir

\* The run is over and a judgment PDF of numeric prefix has been moved out of
\* the source directory.
C9_Witness ==
    /\ pc_move = "done"
    /\ \E n \in TaggedNames :
          /\ src_at_start[n] = "file"
          /\ n \notin DOMAIN src_dir
          /\ \E f \in dest_files : f[2] = n

\* C10: after a run that ends without error every routed file is in the
\* destination tree, and the destination tree holds as many files as were
\* routed: no two of them went to the same path.
C10_NoRoutedFileOverwritten ==
    pc_move = "done" =>
        /\ \A n \in RoutedFiles : \E f \in dest_files : f[2] = n
        /\ Cardinality(dest_files) = Cardinality(RoutedFiles)

====
